---- MODULE Spec2Model ----
(***************************************************************************)
(* The netmancer polling daemon (src/a.py): a loop that loads the JSON     *)
(* document store, collects the live interfaces through nmcli, decides     *)
(* whether something changed, keeps placeholders for vanished interfaces,  *)
(* writes the JSON document store and updates the SQLite NetworkDetails    *)
(* table.                                                                  *)
(***************************************************************************)
EXTENDS Integers, Sequences, FiniteSets, TLC

VARIABLES
    pc,             \* position of main(): start, preflight, load, collect, detect,
                    \* prune, save, update_db, log, sleep, exited, crashed
    nmcli,          \* what the nmcli commands answered in the current cycle
    docFile,        \* the file JSON_DB_PATH
    fileWritable,   \* os.access(JSON_DB_PATH, os.W_OK) at startup
    dirExists,      \* os.path.exists of the directory of JSON_DB_PATH
    ini,            \* read_ini_file of the CLI: the subnet of [address] and its cidr
    cli,            \* the command of the CLI that is running: its inputs and its outcome
    table,          \* committed rows of NetworkDetails, keyed by NetworkType
    conn,           \* the sqlite3 connection of update_sysconf_db: none, closed, or
                    \* unbound (connect raised before the name was assigned)
    existing_data,  \* main's existing_data
    network_data,   \* main's network_data
    changed,        \* the value of has_network_data_changed(...) in this cycle
    db_updated,     \* main's db_updated
    log             \* the lines log_message appended in the current cycle

vars == <<pc, nmcli, docFile, fileWritable, dirExists, ini, cli, table, conn, existing_data,
          network_data, changed, db_updated, log>>

(***************************************************************************)
(* Helpers on sequences                                                    *)
(***************************************************************************)
Range(s) == {s[i] : i \in DOMAIN s}

NA == "NA"

Names(nodes) == {nodes[i].NodeName : i \in DOMAIN nodes}

UniqueNames(nodes) ==
    \A i, j \in DOMAIN nodes : nodes[i].NodeName = nodes[j].NodeName => i = j

(***************************************************************************)
(* cidr_to_netmask: ipaddress.IPv4Network("0.0.0.0/<cidr>").netmask, or "" *)
(* when the library raises ValueError.                                     *)
(***************************************************************************)
\* the decimal texts the model can parse are those of 0 .. MaxPrefixText
MaxPrefixText == 40

PrefixTexts == {ToString(n) : n \in 0 .. MaxPrefixText}

\* int(text) for the decimal texts
PrefixTable == [text \in PrefixTexts |-> CHOOSE n \in 0 .. MaxPrefixText : ToString(n) = text]

ParsePrefix(text) == PrefixTable[text]

\* number of one bits of octet i (0 is the most significant) of a mask with the top p bits set
OctetOnes(p, i) == IF p - 8 * i < 0 THEN 0 ELSE IF p - 8 * i > 8 THEN 8 ELSE p - 8 * i

MaskOctet_low_bits(p, i) == (2 ^ OctetOnes(p, i)) - 1

MaskOctet(p, i) == 256 - (2 ^ (8 - OctetOnes(p, i)))

Dotted(o) ==
    ToString(o[1]) \o "." \o ToString(o[2]) \o "." \o ToString(o[3]) \o "." \o ToString(o[4])

\* str(...netmask) of the network with prefix length p, and the text of its host mask
NetmaskText(p) == Dotted([i \in 1 .. 4 |-> MaskOctet(p, i - 1)])
HostmaskText(p) == Dotted([i \in 1 .. 4 |-> 255 - MaskOctet(p, i - 1)])

NetmaskTable == [p \in 0 .. 32 |-> NetmaskText(p)]
HostmaskTable == [p \in 0 .. 32 |-> HostmaskText(p)]

\* IPv4Network takes what follows "/" as a prefix length when it is all digits;
\* otherwise as a dotted net mask and, when it is not one, as a dotted host mask;
\* everything else raises a ValueError
cidr_to_netmask(cidr) ==
    IF cidr \in PrefixTexts
    THEN IF ParsePrefix(cidr) <= 32 THEN NetmaskTable[ParsePrefix(cidr)] ELSE ""
    ELSE IF \E p \in 0 .. 32 : NetmaskTable[p] = cidr
    THEN cidr
    ELSE IF \E p \in 0 .. 32 : HostmaskTable[p] = cidr
    THEN NetmaskTable[CHOOSE p \in 0 .. 32 : HostmaskTable[p] = cidr]
    ELSE ""

(***************************************************************************)
(* CIDRConverter of the CLI (netmancer_cli/utils/cidr_converter.py) and    *)
(* the subnet handling of read_ini_file.  Python integers as sequences of  *)
(* 32 bits, most significant first.                                        *)
(***************************************************************************)
AllOnes == [i \in 1 .. 32 |-> 1]

\* w >> n
Shr(w, n) == [i \in 1 .. 32 |-> IF i <= n THEN 0 ELSE w[i - n]]

\* w << n; the bits shifted out are zero where the converter shifts
Shl(w, n) == [i \in 1 .. 32 |-> IF i + n <= 32 THEN w[i + n] ELSE 0]

\* (w >> s) & 0xff
ByteAt(w, s) ==
    LET v == Shr(w, s) IN
    v[25] * 128 + v[26] * 64 + v[27] * 32 + v[28] * 16 + v[29] * 8 + v[30] * 4 + v[31] * 2 + v[32]

Raised(e) == [raised |-> e, value |-> ""]
Returned(v) == [raised |-> "none", value |-> v]

cidr_to_subnet_mask(cidr) ==
    IF cidr < 0 \/ cidr > 32
    THEN Raised("ValueError")
    ELSE LET mask == Shl(Shr(AllOnes, 32 - cidr), 32 - cidr) IN
         Returned(Dotted(<<ByteAt(mask, 24), ByteAt(mask, 16), ByteAt(mask, 8), ByteAt(mask, 0)>>))

\* CIDRConverter defines no subnet_to_cidr: looking it up on the instance raises
subnet_to_cidr(subnet) == Raised("AttributeError")

\* read_ini_file, static branch: int(subnet) of a text of digits within 0..32 is the
\* cidr; any other subnet raises ValueError in the try block and goes to the converter,
\* whose AttributeError the "except ValueError" around it does not catch
read_ini_subnet(subnet) ==
    IF subnet \in PrefixTexts /\ ParsePrefix(subnet) <= 32
    THEN Returned(ParsePrefix(subnet))
    ELSE LET r == subnet_to_cidr(subnet) IN
         IF r.raised = "ValueError" THEN Raised("ValueError") ELSE r

(***************************************************************************)
(* The answers of nmcli.  A command answer is [ok, out]: ok = FALSE is a   *)
(* non-zero exit status (CalledProcessError), out the lines of stdout.     *)
(* A line of the device listing is [device, type, state]; a line of        *)
(* "device show" is [key, val], where the value of an IP4.ADDRESS line is  *)
(* the text around "/" (<<ip, cidr>>) or <<text>> when there is no "/".    *)
(***************************************************************************)
Dev(d, t, s) == [device |-> d, type |-> t, state |-> s]

Addr(ip, cidr) == [key |-> "IP4.ADDRESS", val |-> <<ip, cidr>>]
AddrNoSlash(text) == [key |-> "IP4.ADDRESS", val |-> <<text>>]
Gw(g) == [key |-> "IP4.GATEWAY", val |-> g]
Dns(d) == [key |-> "IP4.DNS", val |-> d]

Ok(lines) == [ok |-> TRUE, out |-> lines]
Failed == [ok |-> FALSE, out |-> <<>>]

EthStates == {"connected", "unavailable"}
WlanStates == {"connected", "disconnected"}

\* the bridge is always listed: a connected device of another type
ListingLines(e, w) ==
    <<Dev("eth0", "ethernet", e), Dev("br0", "bridge", "connected"), Dev("wlan0", "wifi", w)>>

Listings ==
    {Failed, Ok(<<>>)} \cup {Ok(ListingLines(e, w)) : e \in EthStates, w \in WlanStates}

\* lexicographic order of the DNS texts the model uses (sorted() compares strings)
DnsOrder == <<"1.1.1.1", "8.8.4.4", "8.8.8.8">>

EthShows ==
    { Failed,
      Ok(<<Addr("10.0.0.5", "24"), Gw("10.0.0.1"), Dns("8.8.8.8"), Dns("1.1.1.1"), Dns("8.8.8.8")>>),
      Ok(<<Addr("10.0.0.5", "16"), Gw("10.0.0.254"), Dns("8.8.4.4")>>),
      Ok(<<Addr("10.0.0.6", "24"), Gw("10.0.0.1"), Dns("8.8.8.8")>>) }

WlanShows ==
    { Failed,
      Ok(<<Addr("192.168.1.10", "24"), Gw("192.168.1.1"), Dns("1.1.1.1")>>),
      Ok(<<Gw("--"), Dns("")>>),
      Ok(<<Addr("192.168.1.10", "33"), Gw("192.168.1.1")>>) }

Queried(listing, device) ==
    listing.ok /\ \E i \in DOMAIN listing.out :
        listing.out[i].device = device /\ listing.out[i].state = "connected"

\* "device show" of a device that is not connected is never run: its answer is fixed
Environments ==
    {env \in [listing : Listings, eth0 : EthShows, wlan0 : WlanShows] :
        /\ ~Queried(env.listing, "eth0") => env.eth0 = Failed
        /\ ~Queried(env.listing, "wlan0") => env.wlan0 = Failed}

ShowOf(env, device) == IF device = "eth0" THEN env.eth0 ELSE env.wlan0

(***************************************************************************)
(* get_network_info                                                        *)
(***************************************************************************)
Capitalize(t) == IF t = "wifi" THEN "Wifi" ELSE IF t = "ethernet" THEN "Ethernet" ELSE t

SortedSet_as_appended(xs) == xs

\* list(sorted(set(xs))) for xs drawn from DnsOrder
SortedSet(xs) == SelectSeq(DnsOrder, LAMBDA d : d \in Range(xs))

RECURSIVE ParseShow(_, _, _)
\* the loop of lines 69-82 from line i on, node being node_info so far
ParseShow(lines, i, node) ==
    IF i > Len(lines) THEN node
    ELSE LET line == lines[i] IN
         IF line.key = "IP4.ADDRESS"
         THEN IF Len(line.val) = 2
              THEN ParseShow(lines, i + 1,
                     [node EXCEPT !.IP = line.val[1],
                                  !.CIDR = "/" \o line.val[2],
                                  !.Netmask = cidr_to_netmask(line.val[2])])
              ELSE ParseShow(lines, i + 1, node)
         ELSE IF line.key = "IP4.GATEWAY"
         THEN ParseShow(lines, i + 1, [node EXCEPT !.Gateway = line.val])
         ELSE IF line.key = "IP4.DNS"
         THEN IF line.val # ""
              THEN ParseShow(lines, i + 1,
                     [node EXCEPT !.NameServers = Append(node.NameServers, line.val)])
              ELSE ParseShow(lines, i + 1, node)
         ELSE ParseShow(lines, i + 1, node)

node_info(dev, show) ==
    LET fresh == [NodeName |-> dev.device, NodeType |-> Capitalize(dev.type),
                  IP |-> NA, CIDR |-> NA, Netmask |-> NA, Gateway |-> NA,
                  NameServers |-> <<>>]
        parsed == ParseShow(show.out, 1, fresh)
    IN  [parsed EXCEPT !.NameServers = SortedSet(parsed.NameServers)]

Qualifies_any_type(dev) == dev.state = "connected"

Qualifies(dev) == dev.state = "connected" /\ dev.type \in {"wifi", "ethernet"}

RECURSIVE CollectFrom(_, _, _)
CollectFrom(env, i, nodes) ==
    IF i > Len(env.listing.out) THEN nodes
    ELSE LET dev == env.listing.out[i] IN
         IF ~Qualifies(dev) THEN CollectFrom(env, i + 1, nodes)
         ELSE IF ~ShowOf(env, dev.device).ok \/ ShowOf(env, dev.device).out = <<>>
         THEN CollectFrom(env, i + 1, nodes)
         ELSE CollectFrom(env, i + 1, Append(nodes, node_info(dev, ShowOf(env, dev.device))))

get_network_info(env) ==
    IF ~env.listing.ok \/ env.listing.out = <<>>
    THEN [NetworkNodes |-> <<>>]
    ELSE [NetworkNodes |-> CollectFrom(env, 1, <<>>)]

\* run_command logged an error: some command that was run exited non-zero
CommandFailed(env) ==
    \/ ~env.listing.ok
    \/ /\ env.listing.ok
       /\ \E i \in DOMAIN env.listing.out :
            Qualifies(env.listing.out[i]) /\ ~ShowOf(env, env.listing.out[i].device).ok

(***************************************************************************)
(* The document store.  docFile.kind is what JSON_DB_PATH holds: "absent"  *)
(* (no file), "object" (a JSON object with a NetworkNodes list, kept in    *)
(* nodes), "empty_object" (the JSON text {}), "array" (the JSON text []),  *)
(* "invalid" (text json.load rejects, e.g. a truncated file).              *)
(* A loaded value is [json, NetworkNodes]: json is "object" for a dict     *)
(* with the key NetworkNodes, "empty_object" for {} and "array" for [].    *)
(***************************************************************************)
EmptyData == [json |-> "object", NetworkNodes |-> <<>>]

File(kind, nodes) == [kind |-> kind, nodes |-> nodes]

\* the value load_existing_network_data returns; readOk = FALSE is an IOError of open()
load_existing_network_data(file, readOk) ==
    IF file.kind = "absent" THEN EmptyData
    ELSE IF ~readOk \/ file.kind = "invalid" THEN EmptyData
    ELSE [json |-> file.kind, NetworkNodes |-> file.nodes]

LoadLogsError(file, readOk) == file.kind # "absent" /\ (~readOk \/ file.kind = "invalid")

(***************************************************************************)
(* has_network_data_changed                                                *)
(***************************************************************************)
\* {node["NodeName"]: node for node in nodes}: a later node replaces an earlier one
NodeDict(nodes) ==
    [n \in Names(nodes) |->
        nodes[CHOOSE i \in DOMAIN nodes :
                /\ nodes[i].NodeName = n
                /\ \A j \in DOMAIN nodes : nodes[j].NodeName = n => j <= i]]

\* the detector comparing whole nodes instead of the IP
has_network_data_changed_whole_node(new_data, existing_data_) ==
    LET existing_nodes == NodeDict(existing_data_.NetworkNodes)
        new_nodes == NodeDict(new_data.NetworkNodes)
    IN  \/ \E name \in DOMAIN new_nodes :
              \/ name \notin DOMAIN existing_nodes
              \/ existing_nodes[name] # new_nodes[name]
        \/ \E name \in DOMAIN existing_nodes : name \notin DOMAIN new_nodes

\* the detector without its second loop (lines 120-122)
has_network_data_changed_new_only(new_data, existing_data_) ==
    LET existing_nodes == NodeDict(existing_data_.NetworkNodes)
        new_nodes == NodeDict(new_data.NetworkNodes)
    IN  \E name \in DOMAIN new_nodes :
            \/ name \notin DOMAIN existing_nodes
            \/ existing_nodes[name].IP # new_nodes[name].IP

has_network_data_changed(new_data, existing_data_) ==
    LET existing_nodes == NodeDict(existing_data_.NetworkNodes)
        new_nodes == NodeDict(new_data.NetworkNodes)
    IN  \/ \E name \in DOMAIN new_nodes :
              \/ name \notin DOMAIN existing_nodes
              \/ existing_nodes[name].IP # new_nodes[name].IP
        \/ \E name \in DOMAIN existing_nodes : name \notin DOMAIN new_nodes

(***************************************************************************)
(* prune_removed_nodes: mutates both arguments; the result is the pair     *)
(***************************************************************************)
\* the placeholder with the name servers left as they were
Placeholder_keeps_dns(node) ==
    [node EXCEPT !.IP = NA, !.CIDR = NA, !.Netmask = NA, !.Gateway = NA]

Placeholder(node) ==
    [node EXCEPT !.IP = NA, !.CIDR = NA, !.Netmask = NA, !.Gateway = NA,
                 !.NameServers = <<NA>>]

\* the membership test of line 131 left out
Removed_unconditional(node, new_node_names) == TRUE

\* the membership test of line 131 never true: vanished nodes are dropped
Removed_never(node, new_node_names) == FALSE

Removed(node, new_node_names) == node.NodeName \notin new_node_names

prune_removed_nodes(new_data, existing_data_) ==
    LET new_node_names == Names(new_data.NetworkNodes)
        old == existing_data_.NetworkNodes
        marked == [i \in DOMAIN old |->
                      IF Removed(old[i], new_node_names) THEN Placeholder(old[i]) ELSE old[i]]
        appended == SelectSeq(marked, LAMBDA node : Removed(node, new_node_names))
    IN  [new |-> [new_data EXCEPT !.NetworkNodes = new_data.NetworkNodes \o appended],
         old |-> [existing_data_ EXCEPT !.NetworkNodes = marked]]

(***************************************************************************)
(* The relational store: the committed rows of NetworkDetails, a function  *)
(* from the NetworkType key to the five value columns.                     *)
(***************************************************************************)
Row(ip, mask, gw, d1, d2) ==
    [IP |-> ip, Subnetmask |-> mask, Gateway |-> gw, PrimaryDNS |-> d1, SecondaryDNS |-> d2]

\* lines 166-170: the column values of a node, 'NA' replaced by the empty string
Blank(v) == IF v = NA THEN "" ELSE v

RowOf(node) ==
    Row(Blank(node.IP), Blank(node.Netmask), Blank(node.Gateway),
        IF node.NameServers = <<>> \/ node.NameServers[1] = NA THEN "" ELSE node.NameServers[1],
        IF Len(node.NameServers) < 2 \/ node.NameServers[2] = NA THEN "" ELSE node.NameServers[2])

\* line 171: the key the daemon looks a node up by
KeyOf(node) == node.NodeName

\* the comparison of line 176 left out: every node is written
NeedsUpdate_always(rows, node) == TRUE

\* line 176: row is None or row[0] != ip
NeedsUpdate(rows, node) ==
    KeyOf(node) \notin DOMAIN rows \/ rows[KeyOf(node)].IP # RowOf(node).IP

\* UPDATE ... WHERE NetworkType=?: changes the rows with that key, if any
SqlUpdate(rows, node) ==
    [k \in DOMAIN rows |-> IF k = KeyOf(node) THEN RowOf(node) ELSE rows[k]]

\* where sqlite3 raises: nowhere, in connect, in an execute for node number `node`, in commit
DbFaults(n) ==
    {[at |-> "none", node |-> 0], [at |-> "connect", node |-> 0], [at |-> "commit", node |-> 0]}
    \cup {[at |-> "execute", node |-> k] : k \in 1 .. n}

RECURSIVE RunNodes(_, _, _, _, _)
\* the for loop of lines 164-181 from node i on; work is the connection's view of the rows
RunNodes(nodes, i, work, upd, fault) ==
    IF i > Len(nodes) THEN [rows |-> work, db_updated |-> upd, raised |-> FALSE]
    ELSE IF fault.at = "execute" /\ fault.node = i
    THEN [rows |-> work, db_updated |-> upd, raised |-> TRUE]
    ELSE IF NeedsUpdate(work, nodes[i])
    THEN RunNodes(nodes, i + 1, SqlUpdate(work, nodes[i]), TRUE, fault)
    ELSE RunNodes(nodes, i + 1, work, upd, fault)

\* update_sysconf_db: the committed rows afterwards, the returned flag, whether
\* sqlite3.Error was caught (and logged), and whether conn was ever bound
update_sysconf_db(data, rows, fault) ==
    IF fault.at = "connect"
    THEN [rows |-> rows, db_updated |-> FALSE, raised |-> TRUE, bound |-> FALSE]
    ELSE LET run == RunNodes(data.NetworkNodes, 1, rows, FALSE, fault) IN
         IF run.raised
         THEN [rows |-> rows, db_updated |-> run.db_updated, raised |-> TRUE, bound |-> TRUE]
         ELSE IF run.db_updated /\ fault.at = "commit"
         THEN [rows |-> rows, db_updated |-> TRUE, raised |-> TRUE, bound |-> TRUE]
         ELSE [rows |-> IF run.db_updated THEN run.rows ELSE rows,
               db_updated |-> run.db_updated, raised |-> FALSE, bound |-> TRUE]

(***************************************************************************)
(* log_message: appends a line to LOG_FILE_PATH.  When the log file cannot *)
(* be written (IOError) the handler calls log_message again, which fails   *)
(* the same way, until the interpreter raises RecursionError; nothing      *)
(* between there and main catches it.                                      *)
(***************************************************************************)
MsgCommand == "Error executing command"
MsgRead == "Error reading existing network data"
MsgWrite == "Error writing to file"
MsgDatabase == "Database error"
MsgPermission == "Permission denied: Cannot write"
MsgBoth == "Network configuration updated in JSON DB and SQLite DB."
MsgJsonOnly == "Network configuration updated in JSON DB only."

\* the log after the messages of one step, msgs being those the step logs
Logged(msgs) == log \o msgs

(***************************************************************************)
(* Initial states                                                          *)
(***************************************************************************)
Node(name, type, ip, cidr, mask, gw, dns) ==
    [NodeName |-> name, NodeType |-> type, IP |-> ip, CIDR |-> cidr, Netmask |-> mask,
     Gateway |-> gw, NameServers |-> dns]

Eth0Stored == Node("eth0", "Ethernet", "10.0.0.5", "/24", "255.255.255.0", "10.0.0.1",
                   <<"1.1.1.1", "8.8.8.8">>)
Wlan0Stored == Node("wlan0", "Wifi", "192.168.1.10", "/24", "255.255.255.0", "192.168.1.1",
                    <<"1.1.1.1">>)

InitFiles ==
    { File("absent", <<>>), File("invalid", <<>>), File("empty_object", <<>>),
      File("array", <<>>), File("object", <<Eth0Stored>>),
      File("object", <<Eth0Stored, Wlan0Stored>>) }

EmptyRow == Row("", "", "", "", "")

InitTables ==
    { [k \in {"Ethernet:eth0", "Wifi:wlan0"} |->
          IF k = "Ethernet:eth0" THEN Row("10.0.0.5", "255.255.255.0", "10.0.0.1", "1.1.1.1", "8.8.8.8")
          ELSE EmptyRow],
      [k \in {"eth0", "wlan0"} |->
          IF k = "eth0" THEN Row("10.0.0.5", "255.255.255.0", "10.0.0.1", "1.1.1.1", "8.8.8.8")
          ELSE EmptyRow] }

NoAnswers == [listing |-> Failed, eth0 |-> Failed, wlan0 |-> Failed]

\* the CLI is another program: the daemon never runs read_ini_file
NoIni == [stage |-> "none"]

\* no command of the CLI is running
NoCli == [cmd |-> "none"]

Init ==
    /\ pc = "start"
    /\ nmcli = NoAnswers
    /\ docFile \in InitFiles
    /\ fileWritable \in {w \in BOOLEAN : docFile.kind = "absent" => ~w}
    /\ dirExists \in {d \in BOOLEAN : docFile.kind # "absent" => d}
    /\ ini = NoIni
    /\ cli = NoCli
    /\ table \in InitTables
    /\ conn = "none"
    /\ existing_data = EmptyData
    /\ network_data = [NetworkNodes |-> <<>>]
    /\ changed = FALSE
    /\ db_updated = FALSE
    /\ log = <<>>

(***************************************************************************)
(* main, one action per statement of the loop                              *)
(***************************************************************************)
\* An uncaught exception ends the process: its locals are gone, the files stay.
\* answers is what nmcli said to the commands of the statement that raised.
\* connection is what the statement left of the sqlite3 connection.
CrashLeaving(answers, connection) ==
    /\ pc' = "crashed"
    /\ nmcli' = answers
    /\ conn' = connection
    /\ existing_data' = EmptyData
    /\ network_data' = [NetworkNodes |-> <<>>]
    /\ changed' = FALSE
    /\ db_updated' = FALSE
    /\ UNCHANGED <<fileWritable, dirExists, ini, cli>>

CrashAfter(answers) == CrashLeaving(answers, "none")

Crash == CrashAfter(NoAnswers)

\* line 195, ensure_directory_exists: the directory is there afterwards
EnsureDirectory ==
    /\ pc = "start"
    /\ pc' = "preflight"
    /\ dirExists' = TRUE
    /\ UNCHANGED <<nmcli, docFile, fileWritable, ini, cli, table, conn, existing_data,
                   network_data, changed, db_updated, log>>

\* line 197: the file is there and os.access denies writing
NotWritable_ignores_existence(file, writable) == ~writable

NotWritable(file, writable) == file.kind # "absent" /\ ~writable

\* lines 197-200
Preflight ==
    /\ pc = "preflight"
    /\ \E logOk \in BOOLEAN :
         IF NotWritable(docFile, fileWritable)
         THEN IF logOk
              THEN /\ pc' = "exited"
                   /\ log' = Logged(<<MsgPermission>>)
                   /\ UNCHANGED <<nmcli, fileWritable, dirExists, ini, cli, conn, existing_data, network_data,
                                  changed, db_updated>>
              ELSE Crash /\ log' = log
         ELSE /\ pc' = "load"
              /\ UNCHANGED <<nmcli, fileWritable, dirExists, ini, cli, conn, existing_data, network_data,
                             changed, db_updated, log>>
    /\ UNCHANGED <<docFile, table>>

\* line 203
Load ==
    /\ pc = "load"
    /\ \E readOk \in BOOLEAN, logOk \in BOOLEAN :
         IF LoadLogsError(docFile, readOk) /\ ~logOk
         THEN Crash /\ log' = log
         ELSE /\ pc' = "collect"
              /\ log' = IF LoadLogsError(docFile, readOk) THEN Logged(<<MsgRead>>) ELSE log
              /\ existing_data' = load_existing_network_data(docFile, readOk)
              /\ UNCHANGED <<nmcli, fileWritable, dirExists, ini, cli, conn, network_data, changed, db_updated>>
    /\ UNCHANGED <<docFile, table>>

\* line 204
Collect ==
    /\ pc = "collect"
    /\ \E env \in Environments, logOk \in BOOLEAN :
         IF CommandFailed(env) /\ ~logOk
         THEN CrashAfter(env) /\ log' = log
         ELSE /\ pc' = "detect"
              /\ nmcli' = env
              /\ network_data' = get_network_info(env)
              /\ log' = IF CommandFailed(env) THEN Logged(<<MsgCommand>>) ELSE log
              /\ UNCHANGED <<fileWritable, dirExists, ini, cli, conn, existing_data, changed, db_updated>>
    /\ UNCHANGED <<docFile, table>>

\* line 206 (and 213): a list has no .get, so an "array" document raises AttributeError
Detect ==
    /\ pc = "detect"
    /\ IF existing_data.json = "array"
       THEN Crash
       ELSE /\ changed' = has_network_data_changed(network_data, existing_data)
            /\ pc' = IF changed' THEN "prune" ELSE "sleep"
            /\ UNCHANGED <<nmcli, fileWritable, dirExists, ini, cli, conn, existing_data, network_data, db_updated>>
    /\ UNCHANGED <<docFile, table, log>>

\* line 207: existing_data["NetworkNodes"] raises KeyError on {}
Prune ==
    /\ pc = "prune"
    /\ IF existing_data.json = "empty_object"
       THEN Crash
       ELSE /\ pc' = "save"
            /\ network_data' = prune_removed_nodes(network_data, existing_data).new
            /\ existing_data' = prune_removed_nodes(network_data, existing_data).old
            /\ UNCHANGED <<nmcli, fileWritable, dirExists, ini, cli, conn, changed, db_updated>>
    /\ UNCHANGED <<docFile, table, log>>

\* save_network_data: the file afterwards; open(..., 'w') may fail (the file is kept)
\* or the write may fail after the file was truncated
save_network_data(data, file, outcome) ==
    IF outcome = "ok" THEN File("object", data.NetworkNodes)
    ELSE IF outcome = "open_fails" THEN file
    ELSE File("invalid", <<>>)

\* line 208
Save ==
    /\ pc = "save"
    /\ \E outcome \in {"ok", "open_fails", "write_fails"}, logOk \in BOOLEAN :
         /\ docFile' = save_network_data(network_data, docFile, outcome)
         /\ IF outcome # "ok" /\ ~logOk
            THEN Crash /\ log' = log
            ELSE /\ pc' = "update_db"
                 /\ log' = IF outcome = "ok" THEN log ELSE Logged(<<MsgWrite>>)
                 /\ UNCHANGED <<nmcli, fileWritable, dirExists, ini, cli, conn, existing_data, network_data,
                                changed, db_updated>>
    /\ table' = table

\* line 209: when connect raised, conn is unbound and "if conn" in the finally
\* block raises UnboundLocalError; when logging the database error raises, the
\* finally block still closes the connection
UpdateDb ==
    /\ pc = "update_db"
    /\ \E fault \in DbFaults(Len(network_data.NetworkNodes)), logOk \in BOOLEAN :
         LET r == update_sysconf_db(network_data, table, fault)
             returns == r.bound /\ (r.raised => logOk)
         IN  /\ table' = r.rows
             /\ log' = IF r.raised /\ logOk THEN Logged(<<MsgDatabase>>) ELSE log
             /\ IF returns
                THEN /\ pc' = "log"
                     /\ conn' = "closed"
                     /\ db_updated' = r.db_updated
                     /\ UNCHANGED <<nmcli, fileWritable, dirExists, ini, cli, existing_data, network_data, changed>>
                ELSE CrashLeaving(NoAnswers, IF r.bound THEN "closed" ELSE "unbound")
    /\ docFile' = docFile

\* lines 210-211
LogOutcome ==
    /\ pc = "log"
    /\ \E logOk \in BOOLEAN :
         IF logOk
         THEN /\ pc' = "sleep"
              /\ log' = Logged(<<IF db_updated THEN MsgBoth ELSE MsgJsonOnly>>)
              /\ UNCHANGED <<nmcli, fileWritable, dirExists, ini, cli, conn, existing_data, network_data,
                             changed, db_updated>>
         ELSE Crash /\ log' = log
    /\ UNCHANGED <<docFile, table>>

\* line 215.  Every local of the iteration is dead here: lines 203-209 assign
\* existing_data, network_data and db_updated again before reading them, so the
\* next iteration starts from their initial values.
Sleep ==
    /\ pc = "sleep"
    /\ pc' = "load"
    /\ nmcli' = NoAnswers
    /\ conn' = "none"
    /\ existing_data' = EmptyData
    /\ network_data' = [NetworkNodes |-> <<>>]
    /\ changed' = FALSE
    /\ db_updated' = FALSE
    /\ log' = <<>>
    /\ UNCHANGED <<docFile, fileWritable, dirExists, ini, cli, table>>

Next ==
    \/ EnsureDirectory
    \/ Preflight
    \/ Load
    \/ Collect
    \/ Detect
    \/ Prune
    \/ Save
    \/ UpdateDb
    \/ LogOutcome
    \/ Sleep

Spec == Init /\ [][Next]_vars

(***************************************************************************)
(* The change detector and the reconciler on their own: every pair of      *)
(* snapshots of at most MaxNodes nodes over a small universe of nodes      *)
(* (node lists with a repeated NodeName included), has_changed applied to  *)
(* the pair, then the merge, then the merge a second time, with the old    *)
(* snapshot as the first merge left it or loaded afresh.                   *)
(***************************************************************************)
MaxNodes == 2

FnNodes ==
    {Node("eth0", "Ethernet", ip, "/24", "255.255.255.0", gw, <<"8.8.8.8">>) :
        ip \in {"10.0.0.5", "10.0.0.6"}, gw \in {"10.0.0.1", "10.0.0.254"}}
    \cup
    {Node("wlan0", "Wifi", "192.168.1.10", "/24", "255.255.255.0", gw, <<"1.1.1.1">>) :
        gw \in {"192.168.1.1", "192.168.1.254"}}
    \cup
    {Node("wlan0", "Wifi", NA, NA, NA, NA, <<>>), Placeholder(Wlan0Stored)}

FnSnapshots == UNION {[1 .. n -> FnNodes] : n \in 0 .. MaxNodes}

InitFn ==
    /\ pc = "fn_start"
    /\ nmcli = NoAnswers
    /\ docFile \in {File("object", old) : old \in FnSnapshots}
    /\ fileWritable = TRUE
    /\ dirExists = TRUE
    /\ ini = NoIni
    /\ cli = NoCli
    /\ table = <<>>
    /\ conn = "none"
    /\ existing_data = load_existing_network_data(docFile, TRUE)
    /\ network_data \in [NetworkNodes : FnSnapshots]
    /\ changed = FALSE
    /\ db_updated = FALSE
    /\ log = <<>>

FnDetect ==
    /\ pc = "fn_start"
    /\ pc' = "fn_detected"
    /\ changed' = has_network_data_changed(network_data, existing_data)
    /\ UNCHANGED <<nmcli, docFile, fileWritable, dirExists, ini, cli, table, conn, existing_data, network_data,
                   db_updated, log>>

FnMerge ==
    /\ pc = "fn_detected"
    /\ pc' = "fn_merged"
    /\ network_data' = prune_removed_nodes(network_data, existing_data).new
    /\ existing_data' = prune_removed_nodes(network_data, existing_data).old
    /\ UNCHANGED <<nmcli, docFile, fileWritable, dirExists, ini, cli, table, conn, changed, db_updated, log>>

FnMergeAgain ==
    /\ pc = "fn_merged"
    /\ pc' = "fn_merged2"
    /\ \E reload \in BOOLEAN :
         LET old == IF reload THEN load_existing_network_data(docFile, TRUE) ELSE existing_data
         IN  /\ network_data' = prune_removed_nodes(network_data, old).new
             /\ existing_data' = prune_removed_nodes(network_data, old).old
    /\ UNCHANGED <<nmcli, docFile, fileWritable, dirExists, ini, cli, table, conn, changed, db_updated, log>>

NextFn ==
    \/ FnDetect
    \/ FnMerge
    \/ FnMergeAgain

SpecFn == InitFn /\ [][NextFn]_vars

(***************************************************************************)
(* The collector on one connected device whose address line carries any    *)
(* of the texts below after "/": the netmask cidr_to_netmask gives it.     *)
(***************************************************************************)
OtherTexts == {"", "abc", "-1", "24.0", "255.0.255.0", "256.0.0.0"}

CidrTexts ==
    PrefixTexts \cup {NetmaskText(p) : p \in 0 .. 32} \cup {HostmaskText(p) : p \in 0 .. 32}
        \cup OtherTexts

CodecEnvironments ==
    {[listing |-> Ok(<<Dev("eth0", "ethernet", "connected")>>),
      eth0 |-> Ok(<<Addr("10.0.0.5", text), Gw("10.0.0.1")>>),
      wlan0 |-> Failed] : text \in CidrTexts}

InitCodec ==
    /\ pc = "codec_start"
    /\ nmcli \in CodecEnvironments
    /\ docFile = File("absent", <<>>)
    /\ fileWritable = FALSE
    /\ dirExists = TRUE
    /\ ini = NoIni
    /\ cli = NoCli
    /\ table = <<>>
    /\ conn = "none"
    /\ existing_data = EmptyData
    /\ network_data = [NetworkNodes |-> <<>>]
    /\ changed = FALSE
    /\ db_updated = FALSE
    /\ log = <<>>

CodecCollect ==
    /\ pc = "codec_start"
    /\ pc' = "codec_done"
    /\ network_data' = get_network_info(nmcli)
    /\ UNCHANGED <<nmcli, docFile, fileWritable, dirExists, ini, cli, table, conn, existing_data,
                   changed, db_updated, log>>

NextCodec == CodecCollect

SpecCodec == InitCodec /\ [][NextCodec]_vars

(***************************************************************************)
(* The codec of the CLI: a prefix length is rendered as a subnet mask by   *)
(* CIDRConverter.cidr_to_subnet_mask, the mask is the subnet of an ini     *)
(* file, and read_ini_file turns the subnet into the cidr of the address.  *)
(* An ini file may also carry the prefix length itself as its subnet.      *)
(***************************************************************************)
MinPrefix == 0 - 1

IniState(stage, prefix, subnet, result) ==
    [stage |-> stage, prefix |-> prefix, subnet |-> subnet, result |-> result]

InitIni ==
    /\ pc = "ini"
    /\ ini \in {IniState("prefix", p, "", Returned("")) : p \in MinPrefix .. MaxPrefixText}
              \cup {IniState("subnet", MinPrefix, text, Returned("")) : text \in PrefixTexts}
    /\ cli = NoCli
    /\ nmcli = NoAnswers
    /\ docFile = File("absent", <<>>)
    /\ fileWritable = FALSE
    /\ dirExists = TRUE
    /\ table = <<>>
    /\ conn = "none"
    /\ existing_data = EmptyData
    /\ network_data = [NetworkNodes |-> <<>>]
    /\ changed = FALSE
    /\ db_updated = FALSE
    /\ log = <<>>

\* the mask of the prefix length becomes the subnet of the ini file
IniRender ==
    /\ ini.stage = "prefix"
    /\ LET r == cidr_to_subnet_mask(ini.prefix) IN
         ini' = IF r.raised = "none"
                THEN IniState("subnet", ini.prefix, r.value, Returned(""))
                ELSE IniState("failed", ini.prefix, "", r)
    /\ UNCHANGED <<pc, nmcli, docFile, fileWritable, dirExists, cli, table, conn, existing_data,
                   network_data, changed, db_updated, log>>

\* read_ini_file on that file
IniRead ==
    /\ ini.stage = "subnet"
    /\ LET r == read_ini_subnet(ini.subnet) IN
         ini' = IniState(IF r.raised = "none" THEN "read" ELSE "failed",
                         ini.prefix, ini.subnet, r)
    /\ UNCHANGED <<pc, nmcli, docFile, fileWritable, dirExists, cli, table, conn, existing_data,
                   network_data, changed, db_updated, log>>

NextIni ==
    \/ IniRender
    \/ IniRead

SpecIni == InitIni /\ [][NextIni]_vars

(***************************************************************************)
(* InterfaceValidator of the CLI (netmancer_cli/utils/valid_interface.py). *)
(* The answer of "nmcli -t -f DEVICE,STATE device" is [ok, out], a line of *)
(* it [device, state]; the text of a state is a sequence of characters.    *)
(***************************************************************************)
Connected == <<"c", "o", "n", "n", "e", "c", "t", "e", "d">>
Disconnected == <<"d", "i", "s">> \o Connected
Unavailable == <<"u", "n", "a", "v", "a", "i", "l", "a", "b", "l", "e">>
Unmanaged == <<"u", "n", "m", "a", "n", "a", "g", "e", "d">>
Connecting == <<"c", "o", "n", "n", "e", "c", "t", "i", "n", "g">>
ConnectedExternally ==
    Connected \o <<" ", "(", "e", "x", "t", "e", "r", "n", "a", "l", "l", "y", ")">>

CliStates ==
    {Connected, Disconnected, Unavailable, Unmanaged, Connecting, ConnectedExternally}

UpperLetters ==
    <<"A", "B", "C", "D", "E", "F", "G", "H", "I", "J", "K", "L", "M",
      "N", "O", "P", "Q", "R", "S", "T", "U", "V", "W", "X", "Y", "Z">>
LowerLetters ==
    <<"a", "b", "c", "d", "e", "f", "g", "h", "i", "j", "k", "l", "m",
      "n", "o", "p", "q", "r", "s", "t", "u", "v", "w", "x", "y", "z">>

\* text.lower()
LowerText(text) ==
    [i \in DOMAIN text |->
        IF \E k \in DOMAIN UpperLetters : UpperLetters[k] = text[i]
        THEN LowerLetters[CHOOSE k \in DOMAIN UpperLetters : UpperLetters[k] = text[i]]
        ELSE text[i]]

\* sub in text
Contains(sub, text) ==
    \E i \in 1 .. (Len(text) - Len(sub) + 1) : SubSeq(text, i, i + Len(sub) - 1) = sub

\* the listing with eth0 and wlan0 in the given states; <<>> leaves the device out
ValidatorLines(e, w) ==
    (IF e = <<>> THEN <<>> ELSE <<[device |-> "eth0", state |-> e]>>)
        \o (IF w = <<>> THEN <<>> ELSE <<[device |-> "wlan0", state |-> w]>>)

CliListings ==
    {Failed} \cup {Ok(ValidatorLines(e, w)) : e \in CliStates \cup {<<>>}, w \in CliStates \cup {<<>>}}

\* CalledProcessError gives the empty list
get_all_interfaces(listing) == IF listing.ok THEN listing.out ELSE <<>>

\* the loop returns at the first line of the device
is_valid_interface(listing, interface) ==
    LET interfaces == get_all_interfaces(listing)
        hits == {i \in DOMAIN interfaces : interfaces[i].device = interface}
    IN  IF hits = {} THEN FALSE
        ELSE LET first == CHOOSE i \in hits : \A j \in hits : i <= j
             IN  Contains(Connected, LowerText(interfaces[first].state))

get_connected_interfaces(listing) ==
    LET interfaces == get_all_interfaces(listing)
        kept == SelectSeq(interfaces, LAMBDA line : Contains(Connected, LowerText(line.state)))
    IN  [i \in DOMAIN kept |-> kept[i].device]

\* interface-status up to its validation of the argument
InitValid ==
    /\ pc = "cli"
    /\ cli \in {[cmd |-> "interface-status", stage |-> "start", listing |-> l,
                 interface |-> n, valid |-> FALSE, connected |-> <<>>] :
                    l \in CliListings, n \in {"eth0", "wlan0", "lo"}}
    /\ ini = NoIni
    /\ nmcli = NoAnswers
    /\ docFile = File("absent", <<>>)
    /\ fileWritable = FALSE
    /\ dirExists = TRUE
    /\ table = <<>>
    /\ conn = "none"
    /\ existing_data = EmptyData
    /\ network_data = [NetworkNodes |-> <<>>]
    /\ changed = FALSE
    /\ db_updated = FALSE
    /\ log = <<>>

ValidateInterface ==
    /\ cli.cmd = "interface-status"
    /\ cli.stage = "start"
    /\ cli' = [cli EXCEPT !.stage = "validated",
                          !.valid = is_valid_interface(cli.listing, cli.interface),
                          !.connected = get_connected_interfaces(cli.listing)]
    /\ UNCHANGED <<pc, nmcli, docFile, fileWritable, dirExists, ini, table, conn, existing_data,
                   network_data, changed, db_updated, log>>

NextValid == ValidateInterface

SpecValid == InitValid /\ [][NextValid]_vars

(***************************************************************************)
(* network-apply of the CLI (netmancer_cli/commands/network_appy.py).      *)
(* An ini file is a record: general and address and wifi say whether the   *)
(* section is there; interface and dhcp are the options of [general], the  *)
(* interface a sequence of characters, dhcp an option that may be unset;   *)
(* the other options are texts, "" when the option is missing or empty     *)
(* (get(..., '') makes no difference between the two).                     *)
(***************************************************************************)
Opt(text) == [set |-> TRUE, text |-> text]
NoOpt == [set |-> FALSE, text |-> <<>>]

\* section.get(option, fallback)
Get(opt, fallback) == IF opt.set THEN opt.text ELSE fallback

Eth0Name == <<"e", "t", "h", "0">>
Wlan0Name == <<"w", "l", "a", "n", "0">>

TrueText == <<"t", "r", "u", "e">>
YesText == <<"Y", "e", "s">>
FalseText == <<"f", "a", "l", "s", "e">>

IniFiles ==
    {f \in [general : BOOLEAN, interface : {<<>>, Eth0Name, Wlan0Name},
            dhcp : {NoOpt, Opt(TrueText), Opt(YesText), Opt(FalseText)},
            address : BOOLEAN, ip : {"", "10.0.0.5"},
            subnet : {"", "24", "255.255.255.0", "33"},
            gateway : {"", "10.0.0.1"}, dns : {"", "8.8.8.8"},
            wifi : BOOLEAN, ssid : {"", "home"}, password : {"", "secret"}] :
        /\ ~f.general => (f.interface = <<>> /\ f.dhcp = NoOpt)
        /\ ~f.address => (f.ip = "" /\ f.subnet = "" /\ f.gateway = "" /\ f.dns = "")
        /\ ~f.wifi => (f.ssid = "" /\ f.password = "")}

\* text.startswith(prefix)
StartsWith(text, prefix) ==
    Len(text) >= Len(prefix) /\ SubSeq(text, 1, Len(prefix)) = prefix

interface_type_always_ethernet(interface) == "ethernet"

interface_type(interface) ==
    IF StartsWith(interface, <<"e", "n">>) \/ StartsWith(interface, <<"e", "t", "h">>)
    THEN "ethernet"
    ELSE IF StartsWith(interface, <<"w", "l">>) \/ StartsWith(interface, <<"w", "l", "a", "n">>)
    THEN "wifi"
    ELSE "ethernet"

\* dhcp = config['general'].get('dhcp', 'true').lower() in ('true', 'yes', '1')
DhcpEnabled(file) ==
    LowerText(Get(file.dhcp, TrueText)) \in {TrueText, <<"y", "e", "s">>, <<"1">>}

EmptyConfig ==
    [dhcp4 |-> FALSE, dhcp6 |-> FALSE, addresses |-> <<>>, routes |-> <<>>,
     nameservers |-> <<>>, access_points |-> <<>>]

\* the keys the [address] section gives the interface entry once its subnet was
\* converted to cidr
WithAddress(config, file, cidr) ==
    [config EXCEPT !.addresses = <<file.ip \o "/" \o ToString(cidr)>>]

WithRoutes(config, file) ==
    IF file.gateway = "" THEN config
    ELSE [config EXCEPT !.routes = <<[to |-> "default", via |-> file.gateway]>>]

WithDns(config, file) ==
    IF file.dns = "" THEN config ELSE [config EXCEPT !.nameservers = <<file.dns>>]

\* the interface entry of either branch, or the error raised on the way
interface_config(file) ==
    IF DhcpEnabled(file)
    THEN LET dhcp == [EmptyConfig EXCEPT !.dhcp4 = TRUE, !.dhcp6 = TRUE] IN
         IF ~file.address THEN Returned(dhcp)
         ELSE IF file.ip # "" /\ file.subnet # ""
         THEN LET r == read_ini_subnet(file.subnet) IN
              IF r.raised # "none" THEN r
              ELSE Returned(WithDns(WithRoutes(WithAddress(dhcp, file, r.value), file), file))
         ELSE Returned(WithDns(WithRoutes(dhcp, file), file))
    ELSE IF ~file.address \/ file.ip = "" \/ file.subnet = ""
    THEN Raised("ValueError")
    ELSE LET r == read_ini_subnet(file.subnet) IN
         IF r.raised # "none" THEN r
         ELSE IF file.gateway = "" THEN Raised("ValueError")
         ELSE Returned(WithDns(WithRoutes(WithAddress(EmptyConfig, file, r.value), file), file))

\* the [wifi] section of a wireless interface
WithWifi(config, file) ==
    IF ~file.wifi \/ file.ssid = "" \/ file.password = ""
    THEN Raised("ValueError")
    ELSE Returned([config EXCEPT
                     !.access_points = <<[ssid |-> file.ssid, password |-> file.password]>>])

\* (network_config, interface, interface_type), or the error raised
read_ini_file(file) ==
    IF ~file.general \/ file.interface = <<>>
    THEN Raised("ValueError")
    ELSE LET type == interface_type(file.interface)
             entry == interface_config(file)
         IN  IF entry.raised # "none" THEN entry
             ELSE LET whole == IF type = "wifi" THEN WithWifi(entry.value, file) ELSE entry
                  IN  IF whole.raised # "none" THEN whole
                      ELSE Returned([interface |-> file.interface, interface_type |-> type,
                                     config |-> whole.value])

NoYaml == [written |-> FALSE, interface_type |-> "", interface |-> <<>>, config |-> EmptyConfig]

\* generate_netplan_yaml: the file at output_path afterwards
generate_netplan_yaml(network, yaml, outcome) ==
    IF outcome = "ok"
    THEN [written |-> TRUE, interface_type |-> network.interface_type,
          interface |-> network.interface, config |-> network.config]
    ELSE yaml

\* click has checked that the ini file exists; no file is at output_path yet
InitApply ==
    /\ pc = "cli"
    /\ cli \in {[cmd |-> "network-apply", stage |-> "start", file |-> f,
                 result |-> Returned(""), rc |-> 0, yaml |-> NoYaml] : f \in IniFiles}
    /\ ini = NoIni
    /\ nmcli = NoAnswers
    /\ docFile = File("absent", <<>>)
    /\ fileWritable = FALSE
    /\ dirExists = TRUE
    /\ table = <<>>
    /\ conn = "none"
    /\ existing_data = EmptyData
    /\ network_data = [NetworkNodes |-> <<>>]
    /\ changed = FALSE
    /\ db_updated = FALSE
    /\ log = <<>>

\* network_apply, first half: an error of read_ini_file is
\* reported and the command returns 1
ApplyRead ==
    /\ cli.cmd = "network-apply"
    /\ cli.stage = "start"
    /\ LET r == read_ini_file(cli.file) IN
         cli' = [cli EXCEPT !.result = r,
                            !.stage = IF r.raised = "none" THEN "read" ELSE "done",
                            !.rc = IF r.raised = "none" THEN 0 ELSE 1]
    /\ UNCHANGED <<pc, nmcli, docFile, fileWritable, dirExists, ini, table, conn, existing_data,
                   network_data, changed, db_updated, log>>

\* network_apply, second half: the YAML file is written; when it cannot be
\* opened the "except Exception" handler returns 1
ApplyGenerate ==
    /\ cli.cmd = "network-apply"
    /\ cli.stage = "read"
    /\ \E outcome \in {"ok", "open_fails"} :
         cli' = [cli EXCEPT !.stage = "done",
                            !.yaml = generate_netplan_yaml(cli.result.value, cli.yaml, outcome),
                            !.rc = IF outcome = "ok" THEN 0 ELSE 1]
    /\ UNCHANGED <<pc, nmcli, docFile, fileWritable, dirExists, ini, table, conn, existing_data,
                   network_data, changed, db_updated, log>>

NextApply ==
    \/ ApplyRead
    \/ ApplyGenerate

SpecApply == InitApply /\ [][NextApply]_vars

(***************************************************************************)
(* Properties of the change detector and of the reconciler (SpecFn)        *)
(***************************************************************************)
New == network_data.NetworkNodes
Old == existing_data.NetworkNodes

\* some NodeName of new is absent from old
NewNameAppears(new, old) == \E i \in DOMAIN new : new[i].NodeName \notin Names(old)

\* some NodeName present in both has a different IP
SharedIpDiffers(new, old) ==
    \E i \in DOMAIN new, j \in DOMAIN old :
        new[i].NodeName = old[j].NodeName /\ new[i].IP # old[j].IP

\* the NodeName-to-IP mapping of a snapshot
IpMapping(nodes) == {<<nodes[i].NodeName, nodes[i].IP>> : i \in DOMAIN nodes}

\* every NodeName of new is present in old with the same IP
AllNewKnown(new, old) ==
    \A i \in DOMAIN new : \E j \in DOMAIN old :
        new[i].NodeName = old[j].NodeName /\ new[i].IP = old[j].IP

\* some NodeName of old is absent from new
NameVanished(new, old) == \E j \in DOMAIN old : old[j].NodeName \notin Names(new)

BothUnique == UniqueNames(New) /\ UniqueNames(Old)

\* C1: has_changed(new, old) is true when some NodeName of new is absent from
\* old, true when some NodeName present in both has a different IP, and false
\* when new and old have the same NodeName-to-IP mapping (snapshots have unique
\* NodeNames).
C1_HasChanged ==
    (pc = "fn_detected" /\ BothUnique) =>
        /\ NewNameAppears(New, Old) => changed
        /\ SharedIpDiffers(New, Old) => changed
        /\ IpMapping(New) = IpMapping(Old) => ~changed

\* a shared interface got another IP, no name is new: reported as a change
C1_Witness ==
    /\ pc = "fn_detected"
    /\ BothUnique
    /\ SharedIpDiffers(New, Old)
    /\ ~NewNameAppears(New, Old)
    /\ changed

\* C2 as stated: has_changed is false whenever every NodeName of new is in old
\* with the same IP, even if old has NodeNames that new lacks.
C2_VanishingIgnored ==
    (pc = "fn_detected" /\ BothUnique /\ AllNewKnown(New, Old)) => ~changed

\* C2 amended: has_changed is false when every NodeName of new is in old with the
\* same IP and no NodeName of old is absent from new, and it is true whenever
\* some NodeName of old is absent from new: a vanished interface is by itself a
\* change.
C2_VanishingDetected ==
    (pc = "fn_detected" /\ BothUnique) =>
        /\ NameVanished(New, Old) => changed
        /\ (AllNewKnown(New, Old) /\ ~NameVanished(New, Old)) => ~changed

\* scenario B: old = eth0 and wlan0, new = eth0 unchanged
C2_Witness ==
    /\ pc = "fn_detected"
    /\ Len(Old) = 2 /\ Old[1].NodeName = "eth0" /\ Old[2].NodeName = "wlan0"
    /\ Old[1].IP = "10.0.0.5" /\ Old[2].IP = "192.168.1.10"
    /\ New = <<Old[1]>>
    /\ changed

\* the placeholder merge appends for an old node
SentinelOf(node) ==
    [NodeName |-> node.NodeName, NodeType |-> node.NodeType, IP |-> "NA", CIDR |-> "NA",
     Netmask |-> "NA", Gateway |-> "NA", NameServers |-> <<"NA">>]

\* result is merge(new, old) as C5 describes it
IsMerge(result, new, old) ==
    /\ Len(result) >= Len(new)
    /\ SubSeq(result, 1, Len(new)) = new
    /\ \A k \in (Len(new) + 1) .. Len(result) :
          \E j \in DOMAIN old :
              old[j].NodeName \notin Names(new) /\ result[k] = SentinelOf(old[j])
    /\ \A j \in DOMAIN old :
          old[j].NodeName \notin Names(new) =>
              Cardinality({k \in DOMAIN result : result[k].NodeName = old[j].NodeName}) = 1
    /\ Names(result) = Names(new) \cup Names(old)

\* C5: for snapshots with unique NodeNames, merge(new, old) is new, unchanged and
\* in order, followed by exactly one sentinel node (same NodeName and NodeType,
\* IP, CIDR, Netmask, Gateway "NA", NameServers ["NA"]) per old node whose
\* NodeName is not in new; its names are the union of the names of new and old.
C5_Merge ==
    [][(pc = "fn_detected" /\ BothUnique) => IsMerge(New', New, Old)]_vars

\* a merge that appended a placeholder after a node of new
C5_Witness ==
    /\ pc = "fn_merged"
    /\ BothUnique
    /\ Len(New) = 2
    /\ New[1].IP # NA
    /\ New[2] = SentinelOf(New[2])
    /\ New[2].NodeName \in Names(Old)

\* C6: merging merge(new, old) with old a second time appends nothing:
\* merge(merge(new, old), old) is the same node sequence as merge(new, old).
C6_MergeIdempotent ==
    [][pc = "fn_merged" => New' = New]_vars

\* the second merge ran on a result that holds a placeholder of the first
C6_Witness ==
    /\ pc = "fn_merged2"
    /\ \E k \in DOMAIN New : New[k] = SentinelOf(New[k]) /\ New[k].NodeName = "eth0"

(***************************************************************************)
(* Properties of the polling loop (Spec)                                   *)
(***************************************************************************)
\* the snapshot the collector returned in the current cycle
Live == get_network_info(nmcli).NetworkNodes

DocNames(file) == Names(file.nodes)

InCycle == pc \in {"detect", "prune", "save", "update_db", "log", "sleep"}

\* an interface of the persisted snapshot is missing from the live one, no name
\* is new and no shared interface has another IP
VanishOnly ==
    /\ InCycle
    /\ LET live == Live
       IN  /\ NameVanished(live, Old)
           /\ ~NewNameAppears(live, Old)
           /\ ~SharedIpDiffers(live, Old)

\* C3 as stated: a cycle in which an interface only vanished writes neither the
\* document store nor the relational store.
C3_VanishNotWritten ==
    [][VanishOnly => (docFile' = docFile /\ table' = table)]_vars

\* C3 amended: a cycle in which an interface of the persisted snapshot is
\* missing from the live snapshot, with no new name and no IP difference,
\* detects a change; unless its write fails, the document store holds at the end
\* of that same cycle the live nodes followed by the sentinel placeholder of
\* each missing interface, and the relational update has run in that cycle.
C3_VanishWritten ==
    (pc = "sleep" /\ VanishOnly) =>
        /\ changed
        /\ MsgWrite \notin Range(log) =>
              /\ docFile.kind = "object"
              /\ SubSeq(docFile.nodes, 1, Len(Live)) = Live
              /\ \A j \in DOMAIN Old :
                    Old[j].NodeName \notin Names(Live) =>
                        \E k \in DOMAIN docFile.nodes : docFile.nodes[k] = SentinelOf(Old[j])
        /\ MsgBoth \in Range(log) \/ MsgJsonOnly \in Range(log)

\* wlan0 vanished while eth0 stayed as it was, and the store holds its placeholder
C3_Witness ==
    /\ pc = "sleep"
    /\ VanishOnly
    /\ Len(Live) = 1
    /\ Live[1].IP = "10.0.0.5"
    /\ docFile = File("object", <<Live[1], SentinelOf(Wlan0Stored)>>)

\* the live data has the names and IPs of the persisted data and differs from it
\* in other fields only
DriftOnly ==
    /\ InCycle
    /\ LET live == Live
       IN  /\ live # Old
           /\ Names(live) = Names(Old)
           /\ \A i \in DOMAIN live : \E j \in DOMAIN Old :
                 /\ live[i].NodeName = Old[j].NodeName
                 /\ live[i].IP = Old[j].IP
                 /\ live[i].NodeType = Old[j].NodeType

\* C4: a cycle in which every live interface is in the persisted snapshot with
\* the same IP, and that differs from it only in Netmask, CIDR, Gateway or
\* NameServers, detects no change and leaves both stores as they are.
C4_DriftIgnored ==
    [][DriftOnly =>
         /\ docFile' = docFile
         /\ table' = table
         /\ pc = "detect" => (~changed' /\ pc' = "sleep")]_vars

\* such a cycle at its end: eth0 kept 10.0.0.5 with another prefix and gateway
C4_Witness ==
    /\ pc = "sleep"
    /\ DriftOnly
    /\ ~changed
    /\ \E i \in DOMAIN Live : \E j \in DOMAIN Old :
          /\ Live[i].NodeName = Old[j].NodeName
          /\ Live[i].Gateway # Old[j].Gateway
          /\ Live[i].CIDR # Old[j].CIDR

NoDocError == MsgRead \notin Range(log) /\ MsgWrite \notin Range(log)

C8_UniqueNodeNames ==
    /\ UniqueNames(Live)
    /\ UniqueNames(New)
    /\ UniqueNames(Old)
    /\ UniqueNames(docFile.nodes)

\* a reconciled snapshot of a live node and a placeholder, written to the store
C8_Witness ==
    /\ pc = "update_db"
    /\ Len(New) = 2
    /\ New[1].NodeName = "wlan0"
    /\ New[2] = SentinelOf(Eth0Stored)
    /\ docFile.nodes = New

\* the key of the pre-provisioned row of a node: "Ethernet:eth0", "Wifi:wlan0"
TypedKey(node) == node.NodeType \o ":" \o node.NodeName

\* C9: after the relational update of a cycle that detected a change (no
\* database error), every node of the reconciled snapshot whose pre-provisioned
\* row, keyed by the interface-type identifier, stored another IP has that row
\* equal to the node's values ("NA" as the empty string, the first two name
\* servers as PrimaryDNS and SecondaryDNS).
C9_TypedRowUpdated ==
    [][(pc = "update_db" /\ pc' = "log" /\ MsgDatabase \notin Range(log')) =>
         \A i \in DOMAIN New :
            (/\ TypedKey(New[i]) \in DOMAIN table
             /\ table[TypedKey(New[i])].IP # Blank(New[i].IP)) =>
                table'[TypedKey(New[i])] = RowOf(New[i])]_vars

\* C10: the set of row keys of the relational table never changes, and a row
\* is modified only by the relational update of a cycle in which the IP observed
\* for the row's interface ("NA" as the empty string) differs from the IP the
\* row stores when that update starts.
C10_RowsOnlyUpdatedOnIpChange ==
    [][/\ DOMAIN table' = DOMAIN table
       /\ \A k \in DOMAIN table :
             table'[k] # table[k] =>
                /\ pc = "update_db"
                /\ \E i \in DOMAIN New :
                      KeyOf(New[i]) = k /\ Blank(New[i].IP) # table[k].IP]_vars

\* the row of eth0 was rewritten with the new address
C10_Witness ==
    /\ pc = "log"
    /\ db_updated
    /\ "eth0" \in DOMAIN table
    /\ table["eth0"] = Row("10.0.0.6", "255.255.255.0", "10.0.0.1", "8.8.8.8", "")

(***************************************************************************)
(* The relational update and the failures of a cycle (Spec)                *)
(***************************************************************************)
\* C11: the relational update returns true exactly when it committed a change
\* of some row's stored values, and the cycle logs "updated in JSON DB and
\* SQLite DB" exactly when the update returned true, "JSON DB only" otherwise.
C11_UpdatedIffCommitted ==
    [][/\ (pc = "update_db" /\ pc' = "log") => (db_updated' <=> table' # table)
       /\ (pc = "log" /\ pc' = "sleep") =>
             /\ db_updated <=> MsgBoth \in Range(log')
             /\ ~db_updated <=> MsgJsonOnly \in Range(log')]_vars

\* C12: a relational update whose database error was logged (the store could
\* not be opened, or a statement failed) reports that nothing was updated,
\* leaves the table as it was, and main goes on to its next statement.
C12_DbErrorSurvived ==
    [][(pc = "update_db" /\ MsgDatabase \in Range(log')) =>
          (pc' = "log" /\ ~db_updated' /\ table' = table)]_vars

\* C13: loading a document store that is missing, unreadable, not JSON, or JSON
\* that is not an object with a NetworkNodes sequence yields the empty
\* NetworkData, and detection and reconciliation never raise.
C13_MalformedLoadsEmpty ==
    [][/\ (/\ pc = "load"
           /\ pc' = "collect"
           /\ (docFile.kind # "object" \/ MsgRead \in Range(log'))) =>
              existing_data' = EmptyData
       /\ pc \in {"detect", "prune"} => pc' # "crashed"]_vars

\* C14: a failed write of the document store is logged and swallowed: main goes
\* on to the relational update with the reconciled snapshot, and the document
\* store keeps the content it had.
C14_WriteFailureSwallowed ==
    [][(pc = "save" /\ (pc' = "crashed" \/ MsgWrite \in Range(log'))) =>
          /\ pc' = "update_db"
          /\ MsgWrite \in Range(log')
          /\ network_data' = network_data
          /\ docFile' = docFile]_vars

C16_ListingFailureIsEmpty ==
    [][(pc = "collect" /\ (~nmcli'.listing.ok \/ nmcli'.listing.out = <<>>)) =>
          (pc' = "detect" /\ network_data' = [NetworkNodes |-> <<>>])]_vars

\* C17: every node of a collected snapshot is a listed device whose state is
\* "connected" and whose type is wifi or ethernet, and its NodeType is that type
\* capitalized.
C17_OnlyConnectedWifiEthernet ==
    pc = "detect" =>
        \A i \in DOMAIN New : \E j \in DOMAIN nmcli.listing.out :
            LET dev == nmcli.listing.out[j] IN
            /\ dev.device = New[i].NodeName
            /\ dev.state = "connected"
            /\ \/ dev.type = "wifi" /\ New[i].NodeType = "Wifi"
               \/ dev.type = "ethernet" /\ New[i].NodeType = "Ethernet"

\* the connected bridge and the unavailable ethernet device are left out
C17_Witness ==
    /\ pc = "detect"
    /\ nmcli.listing = Ok(ListingLines("unavailable", "connected"))
    /\ Names(New) = {"wlan0"}
    /\ New[1].NodeType = "Wifi"

(***************************************************************************)
(* The codec (SpecCodec, SpecIni) and the netmask of a collected node      *)
(***************************************************************************)
\* the 32-bit value whose top p bits are 1, as four octets, in dotted decimal
TopBits(p) == [i \in 1 .. 32 |-> IF i <= p THEN 1 ELSE 0]

RECURSIVE BitsValue(_, _, _)
BitsValue(w, from, to) ==
    IF from > to THEN 0 ELSE 2 * BitsValue(w, from, to - 1) + w[to]

DottedWord(w) ==
    Dotted(<<BitsValue(w, 1, 8), BitsValue(w, 9, 16), BitsValue(w, 17, 24), BitsValue(w, 25, 32)>>)

Complement(w) == [i \in 1 .. 32 |-> 1 - w[i]]

\* the text after "/" of the address line, and the netmask of the collected node
CodecInput == nmcli.eth0.out[1].val[2]
CodecOutput == New[1].Netmask

IsPrefixLength(text) == \E p \in 0 .. 32 : text = ToString(p)

\* C18 as stated: the netmask of a prefix length 0..32 is the dotted rendering of
\* the value with that many top bits set, and every other input gives "".
C18_MaskOrEmpty ==
    pc = "codec_done" =>
        /\ \A p \in 0 .. 32 : CodecInput = ToString(p) => CodecOutput = DottedWord(TopBits(p))
        /\ ~IsPrefixLength(CodecInput) => CodecOutput = ""

\* C18: the netmask of a prefix length 0..32 is the dotted rendering of the value
\* with that many top bits set; a dotted net mask gives itself, a dotted host
\* mask that is not also a net mask gives the net mask it complements; every
\* other input gives "".
C18_MaskOfPrefixOrDotted ==
    pc = "codec_done" =>
        /\ \A p \in 0 .. 32 : CodecInput = ToString(p) => CodecOutput = DottedWord(TopBits(p))
        /\ ~IsPrefixLength(CodecInput) =>
              IF \E p \in 0 .. 32 : CodecInput = DottedWord(TopBits(p))
              THEN CodecOutput = CodecInput
              ELSE IF \E p \in 0 .. 32 : CodecInput = DottedWord(Complement(TopBits(p)))
              THEN \E p \in 0 .. 32 : /\ CodecInput = DottedWord(Complement(TopBits(p)))
                                      /\ CodecOutput = DottedWord(TopBits(p))
              ELSE CodecOutput = ""

\* a host mask after "/" gave the net mask of 20 bits
C18_Witness ==
    /\ pc = "codec_done"
    /\ CodecInput = "0.0.15.255"
    /\ CodecOutput = "255.255.240.0"

\* C19: a prefix length 0..32 rendered as a subnet mask and read back from the
\* ini file gives the prefix length again.
C19_RoundTrip ==
    (ini.stage \in {"read", "failed"} /\ ini.prefix \in 0 .. 32) =>
        (ini.stage = "read" /\ ini.result.value = ini.prefix)

\* C20: the Netmask of a collected node is the sentinel "NA" or the dotted mask
\* of the prefix length in the node's CIDR; it is never the empty string.
C20_NetmaskOrSentinel ==
    pc = "detect" =>
        \A i \in DOMAIN New :
            \/ New[i].Netmask = NA
            \/ \E p \in 0 .. 32 : /\ New[i].CIDR = "/" \o ToString(p)
                                  /\ New[i].Netmask = DottedWord(TopBits(p))

(***************************************************************************)
(* Name servers, the connection, and the steady state of the loop (Spec)   *)
(***************************************************************************)
DnsRank(d) == CHOOSE k \in DOMAIN DnsOrder : DnsOrder[k] = d

\* the non-empty values of the IP4.DNS lines of a "device show" answer
ReportedDns(show) ==
    {show.out[k].val : k \in {j \in DOMAIN show.out : show.out[j].key = "IP4.DNS"}} \ {""}

\* C21: the NameServers of every collected node are strictly increasing (sorted,
\* no duplicates) and their set is the set of non-empty DNS entries reported
\* for the node's device.
C21_NameServersSortedSet ==
    pc = "detect" =>
        \A i \in DOMAIN New :
            LET ns == New[i].NameServers IN
            /\ \A a, b \in DOMAIN ns : a < b => DnsRank(ns[a]) < DnsRank(ns[b])
            /\ Range(ns) = ReportedDns(ShowOf(nmcli, New[i].NodeName))

\* the entries 8.8.8.8, 1.1.1.1, 8.8.8.8 were collected as 1.1.1.1, 8.8.8.8
C21_Witness ==
    /\ pc = "detect"
    /\ nmcli.eth0 = Ok(<<Addr("10.0.0.5", "24"), Gw("10.0.0.1"), Dns("8.8.8.8"), Dns("1.1.1.1"),
                         Dns("8.8.8.8")>>)
    /\ \E i \in DOMAIN New : New[i].NodeName = "eth0" /\ New[i].NameServers = <<"1.1.1.1", "8.8.8.8">>

\* C22: no connection is left open at any statement boundary of main, the sleep
\* step included, and the release in the finally block never finds the
\* connection name unbound (never raises).
C22_ConnectionReleased == conn \in {"none", "closed"}

\* the document store holds what a successful write of the reconciliation of
\* the collected snapshot leaves: merging that snapshot into it gives it again
StoreIsReconciled ==
    /\ docFile.kind = "object"
    /\ existing_data = [json |-> "object", NetworkNodes |-> docFile.nodes]
    /\ IsMerge(Old, New, Old)

\* C24: a cycle whose live snapshot was already reconciled into the document
\* store by a successful write (placeholders of interfaces that are not live
\* included) detects no change and goes to sleep without writing.
C24_Quiescent ==
    [][(pc = "detect" /\ StoreIsReconciled) =>
          (pc' = "sleep" /\ ~changed' /\ docFile' = docFile /\ table' = table)]_vars

\* C25: after a failed write of the document store that was logged, the loop
\* goes on, and the store is left such that a cycle with the same live snapshot
\* detects the change again (and so attempts the write again).
C25_FailedWriteRetried ==
    [][(pc = "save" /\ MsgWrite \in Range(log')) =>
          /\ pc' = "update_db"
          /\ LET live == Live IN
             has_network_data_changed([NetworkNodes |-> live],
                                      load_existing_network_data(docFile', TRUE))]_vars

\* C26: log_message returns to its caller: the statements of the loop that can
\* raise only through log_message (the load, the collection, the save and the
\* outcome line) never end the process.
C26_LoggerReturns ==
    [][(pc \in {"load", "collect", "save", "log"}) => (pc' # "crashed")]_vars

(***************************************************************************)
(* The commands of the CLI (SpecValid, SpecApply)                          *)
(***************************************************************************)
\* the states the listing gives for the interface that is validated
StatesOfInterface ==
    LET lines == IF cli.listing.ok THEN cli.listing.out ELSE <<>>
    IN  {lines[i].state : i \in {j \in DOMAIN lines : lines[j].device = cli.interface}}

\* C23: is_valid_interface is true for a listed device whose state is
\* "connected", and false for a device that is not listed and for a listed
\* device whose state is "disconnected", "unavailable" or "unmanaged".
C23_ValidIffConnected ==
    (cli.cmd = "interface-status" /\ cli.stage = "validated") =>
        /\ Connected \in StatesOfInterface => cli.valid
        /\ StatesOfInterface \subseteq {Disconnected, Unavailable, Unmanaged} => ~cli.valid

(***************************************************************************)
(* Properties of network-apply (SpecApply)                                 *)
(***************************************************************************)
ApplyDone == cli.cmd = "network-apply" /\ cli.stage = "done"

\* DHCP is switched off and the static settings are not all there
StaticIncomplete ==
    /\ cli.file.general
    /\ cli.file.dhcp = Opt(FalseText)
    /\ ~cli.file.address \/ cli.file.ip = "" \/ cli.file.subnet = "" \/ cli.file.gateway = ""

\* the interface is named as a wireless one and the wifi settings are not all there
WifiIncomplete ==
    /\ cli.file.general
    /\ Len(cli.file.interface) >= 2
    /\ cli.file.interface[1] = "w"
    /\ cli.file.interface[2] = "l"
    /\ ~cli.file.wifi \/ cli.file.ssid = "" \/ cli.file.password = ""

\* C27: with DHCP disabled a missing [address] section, ip, subnet or gateway, and
\* for an interface whose name starts with wl a missing [wifi] section, ssid or
\* password, makes read_ini_file raise: the command returns 1 and has written no
\* YAML file; a YAML file is written only when the whole ini file was read
\* without an error.
C27_IncompleteIniRejected ==
    ApplyDone =>
        /\ (StaticIncomplete \/ WifiIncomplete) =>
              (cli.result.raised # "none" /\ cli.rc = 1 /\ ~cli.yaml.written)
        /\ cli.yaml.written => cli.result.raised = "none"

C27_Witness ==
    /\ ApplyDone
    /\ cli.file.interface = Wlan0Name
    /\ cli.file.dhcp = Opt(FalseText)
    /\ cli.file.address /\ cli.file.ip # "" /\ cli.file.subnet = "24" /\ cli.file.gateway # ""
    /\ cli.file.wifi /\ cli.file.ssid # "" /\ cli.file.password = ""
    /\ cli.result.raised = "ValueError"
    /\ cli.rc = 1
    /\ ~cli.yaml.written

\* C28: a subnet given as a dotted-decimal mask is converted to its prefix
\* length: wherever the ini file with the subnet written as that prefix length
\* is read without an error, the file with the mask is read to the same result,
\* whose addresses are <<ip/prefix>>.
C28_MaskReadAsPrefix ==
    (cli.cmd = "network-apply" /\ cli.stage # "start"
        /\ cli.file.subnet = "255.255.255.0" /\ cli.file.ip # "") =>
        LET same == read_ini_file([cli.file EXCEPT !.subnet = "24"]) IN
        same.raised = "none" =>
            /\ cli.result.raised = "none"
            /\ cli.result.value = same.value
            /\ cli.result.value.config.addresses = <<cli.file.ip \o "/24">>

====
